---- MODULE Spec2Model ----
(***************************************************************************)
(* The re-indexing engine of the Linktree chatbot (app/indexer.py) and the *)
(* query handler (app/main.py), as a state machine.                        *)
(*                                                                         *)
(* A URL is a number of 1..NumUrls (URLs are compared by string equality   *)
(* only).  A document text is a record [doc, len]: the len words of        *)
(* document number doc; a chunk is the slice [doc, lo, hi) of such a text. *)
(* A step of a run is one call to an external collaborator (the page       *)
(* fetch, the embedding provider, one call on the Chroma collection); what *)
(* a page serves is an input of each fetch.                                *)
(***************************************************************************)
EXTENDS Integers, Sequences, FiniteSets, TLC

NumUrls == 2
NumDocs == 2
MaxK == 1
MaxTokenLen == 1
MaxWords == 4
MaxChunk == 3
MaxRuns == 1

DefaultMaxTokens == 1000
DefaultOverlap == 120

URLs == 1 .. NumUrls
Runners == {"sync", "periodic"}
SeqRunner == "sync"

Min(a, b) == IF a < b THEN a ELSE b

(* ---------------------------- documents -------------------------------- *)

\* Word count of document d: odd documents are short (one chunk), even
\* documents exceed one step of the chunker (two chunks).
WordCount(d) == IF d % 2 = 1 THEN 50 ELSE 900

EmptyText == [doc |-> 0, len |-> 0]
Texts == {EmptyText} \cup {[doc |-> d, len |-> WordCount(d)] : d \in 1 .. NumDocs}
Down == [doc |-> -1, len |-> -1]
Pages == {Down} \cup Texts

\* _fetch_clean: the cleaned text of the page, or "" when the request or the
\* extraction raised.
_fetch_clean(page) == IF page = Down THEN EmptyText ELSE page

\* range(0, stop, step) of Python raises ValueError for a zero step.
RangeRaises(step) == step = 0

\* range(0, stop, step) of Python as a sequence (step # 0): a negative step
\* gives the empty range.
Range0Inclusive(stop, step) ==
    IF step < 0 \/ stop <= 0 THEN << >>
    ELSE [k \in 1 .. ((stop \div step) + 1) |-> (k - 1) * step]
Range0(stop, step) ==
    IF step < 0 \/ stop <= 0 THEN << >>
    ELSE [k \in 1 .. ((stop + step - 1) \div step) |-> (k - 1) * step]

\* _chunk: words[i : i + max_tokens] for i in range(0, len(words), step).
\* The generator raises (at its first item) when the text has words and
\* the step is zero.
ChunkRaises(text, max_tokens, overlap) ==
    text.len # 0 /\ RangeRaises(max_tokens - overlap)

_chunk(text, max_tokens, overlap) ==
    IF text.len = 0 THEN << >>
    ELSE LET starts == Range0(text.len, max_tokens - overlap)
         IN  [k \in 1 .. Len(starts) |->
                 [doc |-> text.doc,
                  lo  |-> starts[k],
                  hi  |-> Min(starts[k] + max_tokens, text.len)]]

\* sha1(f"{url}::{n}"): injective in (url, n).
doc_id(url, n) == << url, n >>

\* The batch _upsert_url builds for url from the chunks of text:
\* entry n has id doc_id(url, n), metadata {url, chunk: n} and document chunk n.
Batch(url, text) ==
    LET chunks == _chunk(text, DefaultMaxTokens, DefaultOverlap)
    IN  [k \in 1 .. Len(chunks) |->
            [id |-> doc_id(url, k - 1), url |-> url, chunk |-> k - 1, doc |-> chunks[k]]]

SeqRange(s) == {s[k] : k \in 1 .. Len(s)}

(* ---------------------------- collection ------------------------------- *)

\* _existing_urls: the distinct metadata urls of the collection.
ExistingUrlsNone(coll) == {}
_existing_urls(coll) == {e.url : e \in coll}

\* The ids _delete_url collects for url from collection.get().
IdsOfFirstChunk(coll, url) == {e.id : e \in {x \in coll : x.url = url /\ x.chunk = 0}}
IdsOfOtherUrls(coll, url) == {e.id : e \in {x \in coll : x.url # url}}
IdsOfUrl(coll, url) == {e.id : e \in {x \in coll : x.url = url}}

\* collection.delete(ids=...).
CollDelete(coll, ids) == {e \in coll : e.id \notin ids}

\* collection.add(ids=..., documents=..., embeddings=..., metadatas=...).
CollAddFirstOnly(coll, batch) == coll \cup {batch[1]}

\* collection.add fails when an id of the batch is already stored.
AddRejected(coll, batch) == \E e \in SeqRange(batch) : e.id \in {x.id : x \in coll}

\* collection.add(...) of an accepted batch.
CollAdd(coll, batch) == coll \cup SeqRange(batch)

(* ------------------------------- state --------------------------------- *)

VARIABLES
    index,   \* the Chroma collection: a set of entries [id, url, chunk, doc]
    run,     \* per caller: the frame of its reindex call
    obs,     \* per caller: what the current run has observed and written
    last,    \* the previous completed run, when runs are watched
    ask,     \* the frame of the /ask request being served
    token,   \* SYNC_TOKEN, a string as the sequence of its characters
    watch,   \* whether obs and last are kept
    left,    \* per caller: the runs it may still start, or Unlimited
    loop,    \* who runs on the asyncio event loop: "free" or "periodic"
    sync,    \* the /sync request being served
    ptask,   \* the periodic_sync task
    askq,    \* the /ask request on its way through the server
    ck       \* a call of _chunk: its arguments and its outcome

server == << token, watch, left, loop, sync, ptask, askq, ck >>
vars == << index, run, obs, last, ask, server >>

NoUrl == 0
NoResult == [added_urls_count |-> -1, removed_urls_count |-> -1, total_indexed_chunks |-> -1]

IdleRun ==
    [pc |-> "idle", incoming |-> {}, removed |-> {}, added |-> {},
     todoRm |-> {}, todoUp |-> {}, url |-> NoUrl, batch |-> << >>,
     ids_to_delete |-> {}, total_chunks |-> 0, result |-> NoResult]

NotFetched == [doc |-> -2, len |-> -2]
NoneFetched == [u \in URLs |-> NotFetched]

\* urls0: the indexed URLs when the run was called; fetched: the text each
\* fetch of the run returned; written: entries added by the run; fault: the
\* call that raised; repeat: the run has the discovered set of the previous
\* completed call and has fetched the same texts so far (prev), and then
\* ids0: the ids of the index when the run was called; healing: the run has
\* the discovered set of the previous call, which stopped between the delete
\* and the add of a URL.
IdleObs ==
    [urls0 |-> {}, ids0 |-> {}, fetched |-> NoneFetched, written |-> 0,
     fault |-> "none", repeat |-> FALSE, prev |-> NoneFetched, healing |-> FALSE]

\* valid: the previous call returned; torn: it stopped between the delete and
\* the add of a URL.
NoLast == [valid |-> FALSE, incoming |-> {}, fetched |-> NoneFetched, torn |-> FALSE]

NoAnswer == "none"
IdleAsk == [pc |-> "idle", metas |-> << >>, answer |-> NoAnswer,
            sources |-> << >>, completions |-> 0]

Unlimited == -1

\* Caller r starts a run.
Spend(r) == IF left[r] = Unlimited THEN left ELSE [left EXCEPT ![r] = left[r] - 1]

NoHeader == << "None" >>
NoPage == [ok |-> FALSE, links |-> {}, fetched |-> FALSE]
IdleSync == [pc |-> "none", header |-> NoHeader, status |-> 0, page |-> NoPage,
             before |-> {}]
\* outcome: how the last finished cycle of the periodic task ended.
BootTask == [pc |-> "boot_sleep", outcome |-> "none", page |-> NoPage]
NoChunkCall == [pc |-> "none", text |-> EmptyText, max_tokens |-> 0, overlap |-> 0,
                out |-> << >>]

\* The index is empty and nothing is running.
InitCore ==
    /\ index = {}
    /\ run = [r \in Runners |-> IdleRun]
    /\ obs = [r \in Runners |-> IdleObs]
    /\ last = NoLast
    /\ ask = IdleAsk
    /\ loop = "free"
    /\ sync = IdleSync
    /\ ptask = BootTask
    /\ askq = "none"

Init ==
    /\ InitCore
    /\ token = << >>
    /\ ck = NoChunkCall
    /\ watch = TRUE
    /\ left = [r \in Runners |-> Unlimited]

\* The same, with obs and last not kept.
InitUnwatched ==
    /\ InitCore
    /\ token = << >>
    /\ ck = NoChunkCall
    /\ watch = FALSE
    /\ left = [r \in Runners |-> Unlimited]

\* The same, with at most MaxRuns requests and MaxRuns cycles.
InitBounded ==
    /\ InitCore
    /\ token = << >>
    /\ ck = NoChunkCall
    /\ watch = FALSE
    /\ left = [r \in Runners |-> MaxRuns]

(* ------------------------------ reindex -------------------------------- *)

\* Where the run goes after the removal loop has handled one URL.
AfterRemoveEarly(todo) == "upsert"
AfterRemove(todo) == IF todo = {} THEN "upsert" ELSE "remove"

\* An exception leaves reindex: the frame is gone, the caller sees the error.
Raise(r, what) ==
    /\ run' = [run EXCEPT ![r] = [IdleRun EXCEPT !.pc = "raised", !.incoming = run[r].incoming]]
    /\ obs' = IF watch THEN [obs EXCEPT ![r].fault = what] ELSE obs

\* removed = existing - incoming
RemovedSwapped(existing, incoming) == incoming \ existing
Removed(existing, incoming) == existing \ incoming

\* added = incoming - existing
AddedAll(incoming, existing) == incoming
Added(incoming, existing) == incoming \ existing

\* `if not text: return 0`: where _upsert_url goes with the fetched text.
AfterFetchNoGuard(text) == "embed"
AfterFetch(text) == IF text.len = 0 THEN "sleep" ELSE "embed"

\* reindex(incoming_urls, collection) is called.
DoCall(r, U) ==
    /\ run[r].pc = "idle"
    /\ run' = [run EXCEPT ![r] = [IdleRun EXCEPT !.pc = "existing", !.incoming = U]]
    /\ LET repeat == last.valid /\ last.incoming = U
       IN  obs' = IF ~watch THEN obs ELSE
                  [obs EXCEPT ![r] =
                     [IdleObs EXCEPT !.urls0 = {e.url : e \in index},
                                     !.repeat = repeat,
                                     !.ids0 = IF repeat THEN {e.id : e \in index} ELSE {},
                                     !.prev = IF repeat THEN last.fetched ELSE NoneFetched,
                                     !.healing = last.torn /\ last.incoming = U]]
    /\ last' = NoLast
    /\ UNCHANGED << index, ask >>

Call(r, U) == DoCall(r, U) /\ UNCHANGED server

\* existing = _existing_urls(collection); removed, added.
Existing(r) ==
    /\ run[r].pc = "existing"
    /\ LET existing == _existing_urls(index)
           removed  == Removed(existing, run[r].incoming)
           added    == Added(run[r].incoming, existing)
       IN  run' = [run EXCEPT ![r].pc = AfterRemove(removed),
                              ![r].removed = removed,
                              ![r].added = added,
                              ![r].todoRm = removed,
                              ![r].todoUp = run[r].incoming]
    /\ UNCHANGED << index, obs, last, ask, server >>

\* collection.get raises inside _existing_urls.
ExistingFail(r) ==
    /\ run[r].pc = "existing"
    /\ Raise(r, "existing")
    /\ UNCHANGED << index, last, ask, server >>

\* for url in removed: _delete_url -> collection.get and the ids to delete.
RemoveGet(r, u) ==
    /\ run[r].pc = "remove"
    /\ u \in run[r].todoRm
    /\ LET ids == IdsOfUrl(index, u)
       IN  run' = [run EXCEPT
                     ![r].pc = IF ids = {} THEN AfterRemove(run[r].todoRm \ {u})
                                           ELSE "remove_delete",
                     ![r].url = IF ids = {} THEN NoUrl ELSE u,
                     ![r].todoRm = IF ids = {} THEN run[r].todoRm \ {u} ELSE run[r].todoRm,
                     ![r].ids_to_delete = ids]
    /\ UNCHANGED << index, obs, last, ask, server >>

\* ... -> collection.delete(ids=ids_to_delete).
RemoveDelete(r) ==
    /\ run[r].pc = "remove_delete"
    /\ index' = CollDelete(index, run[r].ids_to_delete)
    /\ run' = [run EXCEPT ![r].pc = AfterRemove(run[r].todoRm \ {run[r].url}),
                          ![r].todoRm = run[r].todoRm \ {run[r].url},
                          ![r].url = NoUrl,
                          ![r].ids_to_delete = {}]
    /\ UNCHANGED << obs, last, ask, server >>

\* A storage call of _delete_url raises in the removal loop: nothing catches it.
RemoveFail(r) ==
    /\ run[r].pc \in {"remove", "remove_delete"}
    /\ Raise(r, "remove")
    /\ UNCHANGED << index, last, ask, server >>

\* for url in incoming: _upsert_url -> _fetch_clean, `if not text: return 0`,
\* else the chunks, ids and metadatas of the batch.
Fetch(r, u, page) ==
    /\ run[r].pc = "upsert"
    /\ u \in run[r].todoUp
    /\ LET text == _fetch_clean(page)
       IN  /\ run' = [run EXCEPT
                        ![r].pc = AfterFetch(text),
                        ![r].url = u,
                        ![r].batch = Batch(u, text)]
           /\ LET repeat == obs[r].repeat /\ obs[r].prev[u] = text
               IN  obs' = IF ~watch THEN obs ELSE
                          [obs EXCEPT
                             ![r].fetched[u] = text,
                             ![r].repeat = repeat,
                             ![r].ids0 = IF repeat THEN obs[r].ids0 ELSE {},
                             ![r].prev = IF repeat THEN obs[r].prev ELSE NoneFetched]
    /\ UNCHANGED << index, last, ask, server >>

\* client.embeddings.create(...) returns the vectors.
Embed(r) ==
    /\ run[r].pc = "embed"
    /\ run' = [run EXCEPT ![r].pc = "upsert_get"]
    /\ UNCHANGED << index, obs, last, ask, server >>

\* client.embeddings.create(...) raises: nothing catches it.
EmbedFail(r) ==
    /\ run[r].pc = "embed"
    /\ Raise(r, "embed")
    /\ UNCHANGED << index, last, ask, server >>

\* try: _delete_url -> collection.get and the ids to delete.
UpsertGet(r) ==
    /\ run[r].pc = "upsert_get"
    /\ LET ids == IdsOfUrl(index, run[r].url)
       IN  run' = [run EXCEPT ![r].pc = IF ids = {} THEN "add" ELSE "upsert_delete",
                              ![r].ids_to_delete = ids]
    /\ UNCHANGED << index, obs, last, ask, server >>

\* ... -> collection.delete(ids=ids_to_delete).
UpsertDelete(r) ==
    /\ run[r].pc = "upsert_delete"
    /\ index' = CollDelete(index, run[r].ids_to_delete)
    /\ run' = [run EXCEPT ![r].pc = "add", ![r].ids_to_delete = {}]
    /\ UNCHANGED << obs, last, ask, server >>

\* except Exception: pass -- a storage call of the defensive delete raised.
UpsertDeleteFail(r) ==
    /\ run[r].pc \in {"upsert_get", "upsert_delete"}
    /\ run' = [run EXCEPT ![r].pc = "add", ![r].ids_to_delete = {}]
    /\ UNCHANGED << index, obs, last, ask, server >>

\* collection.add(...); return len(docs); total_chunks += ...
Add(r) ==
    /\ run[r].pc = "add"
    /\ ~AddRejected(index, run[r].batch)
    /\ index' = CollAdd(index, run[r].batch)
    /\ run' = [run EXCEPT ![r].pc = "sleep",
                          ![r].total_chunks = run[r].total_chunks + Len(run[r].batch)]
    /\ obs' = IF watch THEN [obs EXCEPT ![r].written = obs[r].written + Len(run[r].batch)]
                     ELSE obs
    /\ UNCHANGED << last, ask, server >>

\* collection.add(...) raises (an id exists already, or the store fails):
\* nothing catches it.
AddFail(r) ==
    /\ run[r].pc = "add"
    /\ Raise(r, "add")
    /\ UNCHANGED << index, last, ask, server >>

\* time.sleep(0.4), then the next URL of incoming.
Sleep(r) ==
    /\ run[r].pc = "sleep"
    /\ run' = [run EXCEPT ![r].pc = "upsert",
                          ![r].todoUp = run[r].todoUp \ {run[r].url},
                          ![r].url = NoUrl,
                          ![r].batch = << >>]
    /\ UNCHANGED << index, obs, last, ask, server >>

\* The summary reindex returns.
SummaryTotalUrls(f) ==
    [added_urls_count     |-> Cardinality(f.added),
     removed_urls_count   |-> Cardinality(f.removed),
     total_indexed_chunks |-> Cardinality(f.incoming)]
Summary(f) ==
    [added_urls_count     |-> Cardinality(f.added),
     removed_urls_count   |-> Cardinality(f.removed),
     total_indexed_chunks |-> f.total_chunks]

\* return {...}
Return(r) ==
    /\ run[r].pc = "upsert"
    /\ run[r].todoUp = {}
    /\ run' = [run EXCEPT ![r].pc = "done", ![r].result = Summary(run[r])]
    /\ UNCHANGED << index, obs, last, ask, server >>

\* collection.add raised after the delete of _upsert_url had removed the
\* entries of a URL that was indexed when the run was called.
Torn(r) ==
    /\ run[r].pc = "raised"
    /\ obs[r].fault = "add"
    /\ \E u \in obs[r].urls0 \cap run[r].incoming : \A e \in index : e.url # u

\* The caller takes the summary (or the exception); the frame is released.
DoFinish(r) ==
    /\ run[r].pc \in {"done", "raised"}
    /\ last' = IF ~watch THEN NoLast
               ELSE IF run[r].pc = "done"
               THEN [valid |-> TRUE, incoming |-> run[r].incoming,
                     fetched |-> obs[r].fetched, torn |-> FALSE]
               ELSE IF Torn(r)
               THEN [NoLast EXCEPT !.incoming = run[r].incoming, !.torn = TRUE]
               ELSE NoLast
    /\ run' = [run EXCEPT ![r] = IdleRun]
    /\ obs' = [obs EXCEPT ![r] = IdleObs]
    /\ UNCHANGED << index, ask >>

Finish(r) == DoFinish(r) /\ UNCHANGED server

\* The steps of a run between its call and its return or exception.
ReindexSteps(r) ==
    \/ Existing(r)
    \/ ExistingFail(r)
    \/ \E u \in URLs : RemoveGet(r, u)
    \/ RemoveDelete(r)
    \/ RemoveFail(r)
    \/ \E u \in URLs, page \in Pages : Fetch(r, u, page)
    \/ Embed(r)
    \/ EmbedFail(r)
    \/ UpsertGet(r)
    \/ UpsertDelete(r)
    \/ UpsertDeleteFail(r)
    \/ Add(r)
    \/ AddFail(r)
    \/ Sleep(r)
    \/ Return(r)

Reindex(r) ==
    \/ \E U \in SUBSET URLs : Call(r, U)
    \/ ReindexSteps(r)
    \/ Finish(r)

(* -------------------------------- ask --------------------------------- *)

CannedAnswer == "I don't have that yet. Try again after the next refresh."
ModelAnswer == "chat.choices[0].message.content"

\* All sequences of n distinct elements of S.
RECURSIVE Arrangements(_, _)
Arrangements(S, n) ==
    IF n = 0 THEN {<< >>}
    ELSE UNION {{Append(s, e) : e \in S \ SeqRange(s)} : s \in Arrangements(S, n - 1)}

\* collection.query(n_results=k): the k nearest entries (all of them when
\* fewer are stored), nearest first; which are nearest depends on the question.
QueryResults(coll, k) == Arrangements(coll, Min(k, Cardinality(coll)))

\* `if not docs`
NoDocsNever(docs) == FALSE
NoDocs(docs) == docs = << >>

\* emb = client.embeddings.create(input=[body.question])
AskEmbed ==
    /\ ask.pc = "idle"
    /\ ask' = [IdleAsk EXCEPT !.pc = "embedded"]
    /\ UNCHANGED << index, run, obs, last, server >>

\* res = collection.query(...); docs, metas (one metadata per document).
AskQuery(k) ==
    /\ ask.pc = "embedded"
    /\ \E hits \in QueryResults(index, k) :
          ask' = [ask EXCEPT !.pc = "queried",
                             !.metas = [i \in 1 .. Len(hits) |-> hits[i].url]]
    /\ UNCHANGED << index, run, obs, last, server >>

\* if not docs: return {"answer": "I don't have that yet...", "sources": []}
AskNoDocs ==
    /\ ask.pc = "queried"
    /\ NoDocs(ask.metas)
    /\ ask' = [ask EXCEPT !.pc = "done", !.answer = CannedAnswer, !.sources = << >>]
    /\ UNCHANGED << index, run, obs, last, server >>

\* chat = client.chat.completions.create(...); return the answer and the
\* urls of the metadatas.
AskComplete ==
    /\ ask.pc = "queried"
    /\ ~NoDocs(ask.metas)
    /\ ask' = [ask EXCEPT !.pc = "done", !.answer = ModelAnswer,
                          !.sources = ask.metas,
                          !.completions = ask.completions + 1]
    /\ UNCHANGED << index, run, obs, last, server >>

\* client.embeddings.create or collection.query raises: a server error.
AskFail ==
    /\ ask.pc \in {"idle", "embedded"}
    /\ ask' = [IdleAsk EXCEPT !.pc = "error"]
    /\ UNCHANGED << index, run, obs, last, server >>

\* client.chat.completions.create raises: a server error.
AskCompleteFail ==
    /\ ask.pc = "queried"
    /\ ~NoDocs(ask.metas)
    /\ ask' = [ask EXCEPT !.pc = "error", !.completions = ask.completions + 1]
    /\ UNCHANGED << index, run, obs, last, server >>

\* The response is sent.
DoAskReturn ==
    /\ ask.pc \in {"done", "error"}
    /\ ask' = IdleAsk
    /\ UNCHANGED << index, run, obs, last >>

AskReturn == DoAskReturn /\ UNCHANGED server

\* The steps of the handler.
AskSteps ==
    \/ AskEmbed
    \/ \E k \in 1 .. MaxK : AskQuery(k)
    \/ AskNoDocs
    \/ AskComplete
    \/ AskFail
    \/ AskCompleteFail

Ask == AskSteps \/ AskReturn

\* A POST /ask request reaches the server socket.
AskArrive ==
    /\ askq = "none"
    /\ askq' = "pending"
    /\ UNCHANGED << index, run, obs, last, ask, token, watch, left, loop, sync, ptask, ck >>

\* The event loop reads the request and hands the handler (a plain def) to
\* the thread pool.
AskDispatch ==
    /\ askq = "pending"
    /\ loop = "free"
    /\ askq' = "running"
    /\ UNCHANGED << index, run, obs, last, ask, token, watch, left, loop, sync, ptask, ck >>

\* The event loop sends the response of the finished handler.
AskRespond ==
    /\ askq = "running"
    /\ loop = "free"
    /\ DoAskReturn
    /\ askq' = "none"
    /\ UNCHANGED << token, watch, left, loop, sync, ptask, ck >>

AskEndpoint ==
    \/ AskArrive
    \/ AskDispatch
    \/ askq = "running" /\ AskSteps
    \/ AskRespond

(* ------------------------------ _chunk --------------------------------- *)

\* The text of 2500 words.
LongText == [doc |-> 1, len |-> 2500]

\* The calls of _chunk: texts of few words with small word limits and
\* overlaps, and the long text with the default arguments.
ChunkCalls ==
    {[text |-> [doc |-> 1, len |-> n], max_tokens |-> m, overlap |-> o] :
        n \in 0 .. MaxWords, m \in 1 .. MaxChunk, o \in 0 .. MaxChunk + 1}
    \cup {[text |-> LongText, max_tokens |-> DefaultMaxTokens, overlap |-> DefaultOverlap]}

\* list(_chunk(text, max_tokens, overlap)) is called.
ChunkCall(c) ==
    /\ ck.pc = "none"
    /\ ck' = [NoChunkCall EXCEPT !.pc = "called", !.text = c.text,
                                 !.max_tokens = c.max_tokens, !.overlap = c.overlap]
    /\ UNCHANGED << index, run, obs, last, ask, token, watch, left, loop, sync, ptask, askq >>

\* The generator is run to its end: the segments, or the ValueError of range.
ChunkRun ==
    /\ ck.pc = "called"
    /\ ck' = IF ChunkRaises(ck.text, ck.max_tokens, ck.overlap)
             THEN [ck EXCEPT !.pc = "raised"]
             ELSE [ck EXCEPT !.pc = "returned",
                             !.out = _chunk(ck.text, ck.max_tokens, ck.overlap)]
    /\ UNCHANGED << index, run, obs, last, ask, token, watch, left, loop, sync, ptask, askq >>

\* The caller has the result.
ChunkEnd ==
    /\ ck.pc \in {"raised", "returned"}
    /\ ck' = NoChunkCall
    /\ UNCHANGED << index, run, obs, last, ask, token, watch, left, loop, sync, ptask, askq >>

Chunker ==
    \/ \E c \in ChunkCalls : ChunkCall(c)
    \/ ChunkRun
    \/ ChunkEnd

(* ------------------------------- /sync --------------------------------- *)

\* Strings are sequences of characters; the words Bearer and Basic count as
\* one character each.
Chars == {"a", " "}
Strs(n) == UNION {[1 .. k -> Chars] : k \in 0 .. n}
BearerSp == << "Bearer", " " >>
Schemes == {BearerSp, << "Bearer" >>, << "Basic", " " >>}

\* The Authorization headers a request may carry: none, an empty one, or a
\* scheme followed by some characters.
Headers == {NoHeader, << >>} \cup {p \o rest : p \in Schemes, rest \in Strs(MaxTokenLen + 1)}

\* s.startswith(p)
StartsWith(s, p) == Len(s) >= Len(p) /\ SubSeq(s, 1, Len(p)) = p

\* s.split(" ", 1)[1], for s holding a space
AfterFirstSpace(s) ==
    LET i == CHOOSE k \in 1 .. Len(s) : s[k] = " " /\ \A j \in 1 .. k - 1 : s[j] # " "
    IN  SubSeq(s, i + 1, Len(s))

\* s.strip()
RECURSIVE Strip(_)
Strip(s) ==
    IF s = << >> THEN s
    ELSE IF Head(s) = " " THEN Strip(Tail(s))
    ELSE IF s[Len(s)] = " " THEN Strip(SubSeq(s, 1, Len(s) - 1))
    ELSE s

\* _auth_or_403: 0 when it returns, else the status code of the HTTPException.
AuthPrefixMatch(sync_token, auth_header) ==
    IF sync_token = << >> THEN 0
    ELSE IF auth_header = NoHeader \/ auth_header = << >>
            \/ ~StartsWith(auth_header, BearerSp) THEN 401
    ELSE IF ~StartsWith(sync_token, Strip(AfterFirstSpace(auth_header))) THEN 403
    ELSE 0
_auth_or_403(sync_token, auth_header) ==
    IF sync_token = << >> THEN 0
    ELSE IF auth_header = NoHeader \/ auth_header = << >>
            \/ ~StartsWith(auth_header, BearerSp) THEN 401
    ELSE IF Strip(AfterFirstSpace(auth_header)) # sync_token THEN 403
    ELSE 0

\* What the landing page answers: an error, or a page with some http links.
LandingPages ==
    {[ok |-> FALSE, links |-> {}, fetched |-> TRUE]} \cup
    {[ok |-> TRUE, links |-> U, fetched |-> TRUE] : U \in SUBSET URLs}

\* discover_links: httpx.get or raise_for_status raises ...
DiscoverNeverRaises(page) == FALSE
DiscoverRaises(page) == ~page.ok

\* ... else the http hrefs of the page.
discover_links(page) == page.links

\* POST /sync reaches the handler: _auth_or_403(authorization).
SyncRequest(h) ==
    /\ sync.pc = "none"
    /\ loop = "free"
    /\ left["sync"] # 0
    /\ left' = Spend("sync")
    /\ LET status == _auth_or_403(token, h)
       IN  sync' = [IdleSync EXCEPT !.pc = IF status = 0 THEN "discover" ELSE "rejected",
                                    !.header = h,
                                    !.status = status,
                                    !.before = IF status = 0 THEN {} ELSE index]
    /\ UNCHANGED << index, run, obs, last, ask, token, watch, loop, ptask, askq, ck >>

\* urls = discover_links(LINKTREE_URL) raises: the request ends in a server error.
SyncDiscoverFail(page) ==
    /\ sync.pc = "discover"
    /\ DiscoverRaises(page)
    /\ sync' = [IdleSync EXCEPT !.pc = "error", !.status = 500, !.page = page]
    /\ UNCHANGED << index, run, obs, last, ask, token, watch, left, loop, ptask, askq, ck >>

\* urls = discover_links(LINKTREE_URL); reindex(urls, collection) is entered.
SyncDiscover(page) ==
    /\ sync.pc = "discover"
    /\ ~DiscoverRaises(page)
    /\ DoCall("sync", discover_links(page))
    /\ sync' = [IdleSync EXCEPT !.pc = "reindex", !.page = page]
    /\ UNCHANGED << token, watch, left, loop, ptask, askq, ck >>

\* result = reindex(...) returns, or its exception leaves the handler.
SyncReturn ==
    /\ sync.pc = "reindex"
    /\ run["sync"].pc \in {"done", "raised"}
    /\ DoFinish("sync")
    /\ sync' = [IdleSync EXCEPT !.pc = IF run["sync"].pc = "done" THEN "ok" ELSE "error",
                                !.status = IF run["sync"].pc = "done" THEN 200 ELSE 500]
    /\ UNCHANGED << token, watch, left, loop, ptask, askq, ck >>

\* The event loop sends the response.
SyncRespond ==
    /\ sync.pc \in {"rejected", "error", "ok"}
    /\ loop = "free"
    /\ sync' = IdleSync
    /\ UNCHANGED << index, run, obs, last, ask, token, watch, left, loop, ptask, askq, ck >>

SyncEndpoint ==
    \/ \E h \in Headers : SyncRequest(h)
    \/ \E page \in LandingPages : SyncDiscoverFail(page)
    \/ \E page \in LandingPages : SyncDiscover(page)
    \/ sync.pc = "reindex" /\ ReindexSteps("sync")
    \/ SyncReturn
    \/ SyncRespond

(* --------------------------- periodic_sync ----------------------------- *)

\* except Exception as e: print("Sync error:", e) -- the task goes on to
\* await asyncio.sleep(...).
AfterCycleErrorDies == "dead"
AfterCycleError == "sleeping"

\* asyncio.sleep is over: the event loop resumes the task, which starts a cycle.
PeriodicWake ==
    /\ ptask.pc \in {"boot_sleep", "sleeping"}
    /\ loop = "free"
    /\ left["periodic"] # 0
    /\ left' = Spend("periodic")
    /\ ptask' = [ptask EXCEPT !.pc = "discover"]
    /\ loop' = "periodic"
    /\ UNCHANGED << index, run, obs, last, ask, token, watch, sync, askq, ck >>

\* urls = discover_links(LINKTREE_URL) raises, the except clause prints.
PeriodicDiscoverFail(page) ==
    /\ ptask.pc = "discover"
    /\ DiscoverRaises(page)
    /\ ptask' = [BootTask EXCEPT !.pc = AfterCycleError, !.outcome = "discover_failed"]
    /\ loop' = "free"
    /\ UNCHANGED << index, run, obs, last, ask, token, watch, left, sync, askq, ck >>

\* urls = discover_links(LINKTREE_URL); reindex(urls, collection) is entered.
PeriodicDiscover(page) ==
    /\ ptask.pc = "discover"
    /\ ~DiscoverRaises(page)
    /\ DoCall("periodic", discover_links(page))
    /\ ptask' = [ptask EXCEPT !.pc = "reindex", !.page = page]
    /\ UNCHANGED << token, watch, left, loop, sync, askq, ck >>

\* reindex returns; await asyncio.sleep(int(SYNC_INTERVAL_HOURS * 3600)).
PeriodicReturn ==
    /\ ptask.pc = "reindex"
    /\ run["periodic"].pc = "done"
    /\ DoFinish("periodic")
    /\ ptask' = [BootTask EXCEPT !.pc = "sleeping", !.outcome = "ok"]
    /\ loop' = "free"
    /\ UNCHANGED << token, watch, left, sync, askq, ck >>

\* reindex raises, the except clause prints.
PeriodicError ==
    /\ ptask.pc = "reindex"
    /\ run["periodic"].pc = "raised"
    /\ DoFinish("periodic")
    /\ ptask' = [BootTask EXCEPT !.pc = AfterCycleError, !.outcome = "reindex_failed"]
    /\ loop' = "free"
    /\ UNCHANGED << token, watch, left, sync, askq, ck >>

PeriodicSync ==
    \/ PeriodicWake
    \/ \E page \in LandingPages : PeriodicDiscoverFail(page)
    \/ \E page \in LandingPages : PeriodicDiscover(page)
    \/ ptask.pc = "reindex" /\ ReindexSteps("periodic")
    \/ PeriodicReturn
    \/ PeriodicError

(* --------------------------- specifications ---------------------------- *)

\* Calls of reindex one after the other.
Next ==
    \/ Reindex(SeqRunner)

Spec == Init /\ [][Next]_vars

\* Calls of reindex one after the other, and /ask requests served meanwhile.
NextAsk ==
    \/ Reindex(SeqRunner)
    \/ Ask

SpecAsk == InitUnwatched /\ [][NextAsk]_vars

\* The server with any SYNC_TOKEN, serving /sync requests.
InitSync ==
    /\ InitCore
    /\ token \in Strs(MaxTokenLen)
    /\ ck = NoChunkCall
    /\ watch = TRUE
    /\ left = [r \in Runners |-> Unlimited]

NextSync == SyncEndpoint

SpecSync == InitSync /\ [][NextSync]_vars

\* The periodic task alone; the timer of asyncio.sleep fires.
NextPeriodic == PeriodicSync

SpecPeriodic == Init /\ [][NextPeriodic]_vars /\ WF_vars(PeriodicWake)

\* /sync requests (no token configured) and the periodic task in one server.
NextServer == SyncEndpoint \/ PeriodicSync

SpecServer == InitBounded /\ [][NextServer]_vars

\* The same two taking turns: a request is served while the task sleeps, a
\* cycle runs while no request is being served.
NextTurns ==
    \/ ptask.pc \in {"boot_sleep", "sleeping"} /\ SyncEndpoint
    \/ sync.pc = "none" /\ PeriodicSync

SpecTurns == InitUnwatched /\ [][NextTurns]_vars

\* The chunker called on its own.
NextChunk == Chunker

SpecChunk == Init /\ [][NextChunk]_vars

\* The periodic task and /ask requests on the one event loop.
NextLoop == PeriodicSync \/ AskEndpoint

SpecLoop == Init /\ [][NextLoop]_vars

(* ------------------------------ properties ----------------------------- *)

R == SeqRunner
Done == run[R].pc = "done"
Raised == run[R].pc = "raised"

\* The entries, urls and ids of the index, read directly.
EntriesOf(u) == {e \in index : e.url = u}
IndexedUrls == {e.url : e \in index}
IndexedIds == {e.id : e \in index}

\* The fetch of u in the current run returned non-empty text.
FetchedOk(u) == obs[R].fetched[u].len > 0
AllFetchedOk == \A u \in run[R].incoming : FetchedOk(u)

\* The entries of the document the current run fetched for u.
CurrentChunks(u) == SeqRange(Batch(u, obs[R].fetched[u]))

RECURSIVE SumChunks(_)
SumChunks(U) ==
    IF U = {} THEN 0
    ELSE LET u == CHOOSE x \in U : TRUE
         IN  Cardinality(CurrentChunks(u)) + SumChunks(U \ {u})

\* C1 (coverage): when reindex(U) has returned and every URL of U fetched
\* non-empty text in the run, the distinct metadata urls of the index are
\* exactly U, whatever the index held before.
C1_Coverage == (Done /\ AllFetchedOk) => IndexedUrls = run[R].incoming

C1_Witness ==
    /\ Done /\ AllFetchedOk
    /\ run[R].incoming # {}
    /\ obs[R].urls0 \ run[R].incoming # {}
    /\ run[R].incoming \ obs[R].urls0 # {}

\* C2 as stated: a completed run that repeats the previous completed run
\* (same discovered set, same fetched content) reports no added and no
\* removed URL and leaves the ids of the index as they were.
C2_Original ==
    (Done /\ obs[R].repeat) =>
        /\ run[R].result.removed_urls_count = 0
        /\ run[R].result.added_urls_count = 0
        /\ IndexedIds = obs[R].ids0

\* C2 (idempotence, amended): the same, for a discovered set whose URLs all
\* fetch non-empty text.
C2_Idempotent ==
    (Done /\ obs[R].repeat /\ AllFetchedOk) =>
        /\ run[R].result.removed_urls_count = 0
        /\ run[R].result.added_urls_count = 0
        /\ IndexedIds = obs[R].ids0

C2_Witness ==
    /\ Done /\ obs[R].repeat /\ AllFetchedOk
    /\ run[R].incoming = URLs
    /\ \E u \in URLs : Cardinality(CurrentChunks(u)) > 1

\* No two entries of the index share a chunk id.
UniqueIds == \A e1, e2 \in index : e1.id = e2.id => e1 = e2

\* C3 as stated: after a completed reindex(U) a URL outside U has no entry,
\* every URL of U has all and only the chunks of the document fetched in the
\* run, and chunk ids are unique.
C3_Original ==
    Done =>
        /\ \A u \in URLs \ run[R].incoming : EntriesOf(u) = {}
        /\ \A u \in run[R].incoming : EntriesOf(u) = CurrentChunks(u)
        /\ UniqueIds

\* C3 (index entries, amended): after a completed reindex(U) a URL outside U
\* has no entry, every URL of U whose fetch returned non-empty text has all
\* and only the chunks of that document, and chunk ids are unique.
C3_Entries ==
    Done =>
        /\ \A u \in URLs \ run[R].incoming : EntriesOf(u) = {}
        /\ \A u \in run[R].incoming : FetchedOk(u) => EntriesOf(u) = CurrentChunks(u)
        /\ UniqueIds

\* One indexed URL is no longer discovered, another is refreshed with a
\* two-chunk document.
C3_Witness ==
    /\ Done
    /\ obs[R].urls0 \ run[R].incoming # {}
    /\ \E u \in run[R].incoming \cap obs[R].urls0 :
          /\ FetchedOk(u)
          /\ Cardinality(CurrentChunks(u)) = 2

\* C4 (deletion isolation): after a completed run, a URL A that was indexed
\* and is not discovered has no entry, and a discovered URL B that fetched
\* non-empty text has at least one.
C4_DeletionIsolation ==
    Done =>
        \A A \in obs[R].urls0 \ run[R].incoming, B \in run[R].incoming :
            FetchedOk(B) => (EntriesOf(A) = {} /\ EntriesOf(B) # {})

C4_Witness ==
    /\ Done
    /\ \E A \in obs[R].urls0 \ run[R].incoming, B \in run[R].incoming : FetchedOk(B)

\* C5 (fetch-failure isolation): a fetch that failed or gave empty text
\* takes the run to the pause before the next URL with nothing to add; a
\* completed run has fetched every discovered URL and reports as total the
\* chunks of the URLs that fetched non-empty text.
C5_FetchIsolation ==
    /\ \A u \in URLs :
          (run[R].url = u /\ obs[R].fetched[u] = EmptyText) =>
              (run[R].pc = "sleep" /\ run[R].batch = << >>)
    /\ Done =>
          /\ \A u \in run[R].incoming : obs[R].fetched[u] # NotFetched
          /\ run[R].result.total_indexed_chunks = SumChunks(run[R].incoming)

C5_Witness ==
    /\ Done
    /\ \E B \in run[R].incoming : obs[R].fetched[B] = EmptyText
    /\ \E u \in run[R].incoming : FetchedOk(u)
    /\ run[R].result.total_indexed_chunks > 0

\* C6 as stated: a failure of the embedding call for one URL does not abort
\* the run.
C6_EmbedIsolation == ~(Raised /\ obs[R].fault = "embed")

\* C7 as stated: a failure of the add for one URL does not abort the run.
C7_AddIsolation == ~(Raised /\ obs[R].fault = "add")

\* C8 as stated: a failure to delete the entries of one removed URL does not
\* abort the run.
C8_RemoveIsolation == ~(Raised /\ obs[R].fault = "remove")

\* C9 (summary): a completed reindex(U) reports the number of URLs of U not
\* indexed at the start, the number of URLs indexed at the start and not in
\* U, and the number of entries it added.
C9_Summary ==
    Done =>
        /\ run[R].result.added_urls_count =
              Cardinality(run[R].incoming \ obs[R].urls0)
        /\ run[R].result.removed_urls_count =
              Cardinality(obs[R].urls0 \ run[R].incoming)
        /\ run[R].result.total_indexed_chunks = obs[R].written

\* The second run of the end-to-end scenario: every URL is indexed and only
\* one of them is discovered, with a one-chunk document.
C9_Witness ==
    /\ Done
    /\ obs[R].urls0 = URLs
    /\ Cardinality(run[R].incoming) = 1
    /\ run[R].result = [added_urls_count |-> 0, removed_urls_count |-> 1,
                        total_indexed_chunks |-> 1]
    /\ IndexedUrls = run[R].incoming

\* C10 (no data): when the query returned no chunk, the completion provider
\* is not called and the response is the canned answer with no sources.
C10_NoData ==
    (ask.pc \in {"queried", "done"} /\ ask.metas = << >>) =>
        /\ ask.completions = 0
        /\ ask.pc = "done" => (ask.answer = CannedAnswer /\ ask.sources = << >>)

C10_Witness == ask.pc = "done" /\ ask.metas = << >> /\ index = {}

\* Sequences of at most n spaces.
Spaces(n) == {[i \in 1 .. k |-> " "] : k \in 0 .. n}

\* header is "Bearer " and the token, with whitespace around the token.
PaddedBearer(header, tok) ==
    \E l, r \in Spaces(MaxTokenLen + 1) : header = BearerSp \o l \o tok \o r

\* header does not start with "Bearer ", or there is none.
NotBearer(header) ==
    \/ header \in {NoHeader, << >>}
    \/ Len(header) < 2
    \/ header[1] # "Bearer"
    \/ header[2] # " "

\* C11 as stated: with a token configured, the handler goes on to discovery
\* only for the header that is exactly "Bearer <token>".
C11_Original ==
    (token # << >> /\ sync.pc = "discover") => sync.header = BearerSp \o token

\* C11 (trigger authorization, amended): with a token configured, the
\* handler goes on to discovery only for a header "Bearer <token>" with
\* optional whitespace around the token; a header that is missing or is not a
\* Bearer one is rejected with 401, any other with 403; a rejected request has
\* not entered reindex and the index is as before; with an empty token no
\* request is rejected.
C11_Authorization ==
    /\ (token # << >> /\ sync.pc = "discover") => PaddedBearer(sync.header, token)
    /\ sync.pc = "rejected" =>
          /\ token # << >>
          /\ sync.status = IF NotBearer(sync.header) THEN 401 ELSE 403
          /\ run["sync"].pc = "idle"
          /\ index = sync.before
    /\ token = << >> => sync.pc # "rejected"

\* A padded header has been accepted (and the index is not empty).
C11_Witness ==
    /\ token # << >>
    /\ sync.pc = "discover"
    /\ sync.header # BearerSp \o token
    /\ index # {}

\* C12 (periodic job liveness): the periodic task never terminates, whatever
\* a cycle raised; it starts a cycle only when the previous one has released
\* reindex; and after every cycle, failed or not, it sleeps and then starts
\* another one.
C12_PeriodicLiveness ==
    /\ [](ptask.pc \in {"boot_sleep", "sleeping", "discover", "reindex"})
    /\ [](ptask.pc \in {"boot_sleep", "sleeping", "discover"} => run["periodic"].pc = "idle")
    /\ \A o \in {"ok", "discover_failed", "reindex_failed"} :
          (ptask.outcome = o /\ ptask.pc = "sleeping")
              ~> (ptask.outcome = o /\ ptask.pc = "discover")

\* A cycle has started after one in which reindex raised.
C12_Witness == ptask.outcome = "reindex_failed" /\ ptask.pc = "discover"

\* C13 (no starvation of queries): whenever a periodic run is in progress
\* and a query is pending, the event loop can take the query up before the
\* run's next step.
C13_NoStarvation ==
    (ptask.pc \in {"discover", "reindex"} /\ askq = "pending") => ENABLED AskDispatch

\* C14 (chunker fail-fast): a call of the chunker on a non-empty text with
\* overlap >= max_tokens ends with an error, never with a returned sequence.
C14_FailFast ==
    (ck.pc \in {"raised", "returned"} /\ ck.text.len > 0 /\ ck.overlap >= ck.max_tokens)
        => ck.pc = "raised"

\* Number of words of a segment.
SegLen(seg) == seg.hi - seg.lo

\* C15 (chunker result): for overlap < max_tokens the chunker returns, for
\* i = 0, 1, ... while i*step < word count, the words [i*step, i*step +
\* max_tokens) cut at the end of the text; the empty text gives no segment, no
\* segment is empty, two consecutive full segments share exactly overlap
\* words, and 2500 words with 1000/120 give 3 segments, the first two of 1000
\* words.
C15_ChunkResult ==
    (ck.pc \in {"raised", "returned"} /\ ck.overlap < ck.max_tokens) =>
        LET n    == ck.text.len
            step == ck.max_tokens - ck.overlap
            out  == ck.out
        IN  /\ ck.pc = "returned"
            /\ Len(out) = Cardinality({i \in 0 .. n : i * step < n})
            /\ \A k \in 1 .. Len(out) :
                  /\ out[k].lo = (k - 1) * step
                  /\ out[k].hi = IF out[k].lo + ck.max_tokens < n
                                 THEN out[k].lo + ck.max_tokens ELSE n
                  /\ SegLen(out[k]) > 0
            /\ n = 0 => out = << >>
            /\ \A k \in 1 .. Len(out) - 1 :
                  (SegLen(out[k]) = ck.max_tokens /\ SegLen(out[k + 1]) = ck.max_tokens)
                      => out[k].hi - out[k + 1].lo = ck.overlap
            /\ (n = 2500 /\ ck.max_tokens = 1000 /\ ck.overlap = 120) =>
                  Len(out) = 3 /\ SegLen(out[1]) = 1000 /\ SegLen(out[2]) = 1000

\* Several segments of a text whose length is a multiple of the step.
C15_Witness ==
    /\ ck.pc = "returned"
    /\ ck.overlap < ck.max_tokens
    /\ ck.overlap > 0
    /\ Len(ck.out) >= 2
    /\ ck.text.len % (ck.max_tokens - ck.overlap) = 0

\* The run is in its second loop, or has fetched a page.
UpsertPhase ==
    \/ run[R].pc \in {"upsert", "embed", "upsert_get", "upsert_delete", "add", "sleep", "done"}
    \/ \E u \in URLs : obs[R].fetched[u] # NotFetched

\* The URLs that were indexed when the run was called and are not discovered.
StaleUrls == obs[R].urls0 \ run[R].incoming

\* C16 (phase ordering): once a run fetches or adds for a discovered URL,
\* the deletion of every removed URL is complete: no entry of a removed URL
\* is left.
C16_PhaseOrder == UpsertPhase => \A u \in StaleUrls : EntriesOf(u) = {}

\* A batch is about to be added in a run that had URLs to remove.
C16_Witness == run[R].pc = "add" /\ StaleUrls # {} /\ run[R].removed = StaleUrls

\* The entries of u are all the chunks of one version of its page.
CompleteVersion(u) ==
    \E text \in Texts : text.len > 0 /\ EntriesOf(u) = SeqRange(Batch(u, text))

\* C17 (per-URL consistency under crash): in every state of a run, whatever
\* call has raised (a swallowed failure of the defensive delete included),
\* the entries of each URL are none or the complete chunks of one fetched
\* version. Storage calls are atomic and an add of a stored id is refused.
C17_PerUrlConsistency == \A u \in URLs : EntriesOf(u) = {} \/ CompleteVersion(u)

\* The defensive delete has failed: the new batch is about to be added while
\* the two chunks of the old version are still stored.
C17_Witness ==
    /\ run[R].pc = "add"
    /\ Cardinality(EntriesOf(run[R].url)) = 2
    /\ Len(run[R].batch) = 1

\* C18 (self-healing): when a run stopped between the delete and the add of
\* a URL and the next run has the same discovered set, returns, and fetched
\* non-empty text for every URL, the indexed urls are the discovered set and
\* every URL has exactly the chunks of the text fetched for it.
C18_SelfHealing ==
    (Done /\ obs[R].healing /\ AllFetchedOk) =>
        /\ IndexedUrls = run[R].incoming
        /\ \A u \in run[R].incoming : EntriesOf(u) = CurrentChunks(u)

\* A healing run has returned; it found an indexed URL and a URL without
\* entries, and wrote a two-chunk document.
C18_Witness ==
    /\ Done
    /\ obs[R].healing
    /\ AllFetchedOk
    /\ obs[R].urls0 # {}
    /\ run[R].incoming \ obs[R].urls0 # {}
    /\ \E u \in run[R].incoming : Cardinality(EntriesOf(u)) = 2

\* A reconciliation run of caller r is in progress.
Running(r) == run[r].pc \notin {"idle", "done", "raised"}

\* C19 (single writer): at no moment are a run of the trigger endpoint and a
\* run of the periodic task both in progress.
C19_SingleWriter == ~(Running("sync") /\ Running("periodic"))

\* The /sync handler leaves discover_links in this step; the periodic
\* task does.
SyncLeavesDiscover == sync.pc = "discover" /\ sync'.pc # "discover"
PeriodicLeavesDiscover == ptask.pc = "discover" /\ ptask'.pc # "discover"

\* C20 (discovery failure leaves the index unchanged): a caller enters
\* reindex only with the links of a landing page that was fetched; when the
\* fetch of the landing page fails, the step enters no run and changes no
\* entry, in the /sync handler and in the periodic task alike.
C20_DiscoveryFailure ==
    [][ /\ SyncLeavesDiscover =>
              IF sync'.page.ok
              THEN /\ sync'.pc = "reindex"
                   /\ run'["sync"].pc = "existing"
                   /\ run'["sync"].incoming = sync'.page.links
              ELSE /\ sync'.pc = "error"
                   /\ run' = run
                   /\ index' = index
        /\ PeriodicLeavesDiscover =>
              IF ptask'.pc = "reindex"
              THEN /\ ptask'.page.ok
                   /\ run'["periodic"].pc = "existing"
                   /\ run'["periodic"].incoming = ptask'.page.links
              ELSE /\ ptask'.outcome = "discover_failed"
                   /\ run' = run
                   /\ index' = index ]_vars

\* Discovery has failed in a periodic cycle while the index holds entries.
C20_Witness ==
    /\ ptask.outcome = "discover_failed"
    /\ ptask.pc = "sleeping"
    /\ index # {}
    /\ sync.pc = "none"

====
